---- MODULE Spec2Model ----
(***************************************************************************)
(* A model of the imos-toolbox release scripts:                            *)
(*   - get_testfiles.py : the test-fixture syncer (SyncSpec)               *)
(*   - build.py         : the stand-alone build pipeline (BuildSpec) and   *)
(*                        the manifest collection (ManifestSpec)           *)
(* The three programs share no state; each specification drives its own    *)
(* variables and leaves the others at rest.                                *)
(***************************************************************************)
EXTENDS Integers, Sequences, FiniteSets, TLC

VARIABLES
    \* ---- get_testfiles.py ----
    bucket,        \* the remote bucket: a sequence of objects
    localFile,     \* key -> content of dest_file, or NoFile
    run,           \* 1: first invocation of the script, 2: the re-run
    kidx,          \* index of the object the main loop is at (0: before the first)
    pc,            \* position in get_testfiles.py
    do_md5_check,  \* need_md5_check's first result for the current object
    md5sum,        \* need_md5_check's second result for the current object
    ntry,          \* download_file's ntry
    calls,         \* client.download_file calls made for the current object
    events,        \* what each of those calls ended in, oldest first
    seen,          \* what should_skip_file found at dest_file for the current object
    result,        \* key -> Pending / Downloading / Skipped / Downloaded / Failed (this run)
    firstRunOk,    \* in run 2: whether run 1 ended every object Skipped or Downloaded
    exhausted,     \* keys whose download_file ended with no transferred-and-accepted copy
    exitStatus,    \* "running", "zero", or "nonzero" (uncaught exception)
    \* ---- build.py: pipeline ----
    bpc,           \* position in build.py's __main__
    args,          \* the docopt arguments and the host's platform.architecture()
    env,           \* what the environment answers: toolchain present, exit codes, entry file
    fs,            \* the files and directories the pipeline can touch that exist
    fs0,           \* fs when the script started
    cmds,          \* the external commands run so far, with their exit codes
    arch,          \* get_args' arch
    mcc_call,      \* create_mcc_call_sig's result
    mcc_i,         \* how many entries of mcc_call the loop has passed
    warnings,      \* the warnings printed
    copied,        \* whether the final copy() put the binary at the repository root
    bexit,         \* "running", "zero", or "nonzero"
    \* ---- build.py: manifest ----
    mpc,           \* "start" / "found"
    root_path,     \* the folder given to find_items
    tree,          \* the files and folders under root_path, in the order glob yields them
    items,         \* find_items' result
    info,          \* git_info's result, as far as get_required_files reads it
    mfiles,        \* get_required_files' first result
    datafiles,     \* get_required_files' second result
    matpackages,   \* get_required_files' third result
    raised,        \* the exception get_required_files ended in, or "none"
    \* ---- build.py: git_info ----
    gpc,           \* how many times git_info has been called on the repository
    repo,          \* what the repository and the host answer git_info's queries
    version,       \* info["version"] of the latest call
    versions       \* info["version"] of every call so far, oldest first

syncVars == <<bucket, localFile, run, kidx, pc, do_md5_check, md5sum, ntry, calls,
              events, seen, result, firstRunOk, exhausted, exitStatus>>
buildVars == <<bpc, args, env, fs, fs0, cmds, arch, mcc_call, mcc_i, warnings, copied, bexit>>
manVars == <<mpc, root_path, tree, items, info, mfiles, datafiles, matpackages, raised>>
gitVars == <<gpc, repo, version, versions>>
vars == <<syncVars, buildVars, manVars, gitVars>>

----------------------------------------------------------------------------
(* Bounds *)
NumObjects == 2
MaxTreeFiles == 3

----------------------------------------------------------------------------
(* get_testfiles.py                                                        *)

DOWNLOAD_ATTEMPTS == 10

NoFile == "<no file>"
None == "None"
Junk == "junk"

\* The bytes stored under the k-th key; Junk is any other content.
RemoteContent(k) == "object" \o ToString(k)

MetaKinds == {"denied", "plain", "multi_attrs", "multi_empty", "multi_nokey"}

\* hashlib.md5(...).hexdigest() of a content: a string without '-' or ':'.
file_md5(content) == "md5of" \o content

\* `needle in hay` on strings
InStr(needle, hay) ==
    \E i \in 1..(Len(hay) - Len(needle) + 1) : SubSeq(hay, i, i + Len(needle) - 1) = needle

check_md5(content, md5) == file_md5(content) = md5

\* client.head_object for an object: ClientError, or the response's ETag (a quoted
\* string; a multipart upload's is "<digest of the parts' digests>-<parts>") and
\* its user Metadata (a dict).
HeadObject(obj) ==
    CASE obj.meta = "denied" ->
           [error |-> "ClientError"]
      [] obj.meta = "plain" ->
           [error |-> "none",
            ETag |-> "\"" \o file_md5(obj.content) \o "\"",
            Metadata |-> [x \in {} |-> ""]]
      [] obj.meta = "multi_attrs" ->
           [error |-> "none",
            ETag |-> "\"" \o file_md5("parts" \o obj.content) \o "-2" \o "\"",
            Metadata |-> [x \in {"s3cmd-attrs"} |->
                            "mode:33188/md5:" \o file_md5(obj.content)]]
      [] obj.meta = "multi_empty" ->
           [error |-> "none",
            ETag |-> "\"" \o file_md5("parts" \o obj.content) \o "-2" \o "\"",
            Metadata |-> [x \in {} |-> ""]]
      [] obj.meta = "multi_nokey" ->
           [error |-> "none",
            ETag |-> "\"" \o file_md5("parts" \o obj.content) \o "-2" \o "\"",
            Metadata |-> [x \in {"owner"} |-> "imos"]]

\* str.split(':')[-1]: what follows the last ':'.
SplitLast(s) ==
    LET colons == {i \in 1..Len(s) : SubSeq(s, i, i) = ":"}
        from == IF colons = {} THEN 1
                ELSE (CHOOSE i \in colons : \A j \in colons : j <= i) + 1
    IN SubSeq(s, from, Len(s))

\* get_md5: [raised |-> exception name or "none", md5 |-> digest]
get_md5(obj) ==
    LET metadata == HeadObject(obj) IN
    IF metadata.error # "none" THEN [raised |-> metadata.error, md5 |-> None]
    ELSE LET etag == SubSeq(metadata.ETag, 2, Len(metadata.ETag) - 1) IN
         IF InStr("-", etag) /\ DOMAIN metadata.Metadata # {}
         THEN IF "s3cmd-attrs" \in DOMAIN metadata.Metadata
              THEN [raised |-> "none", md5 |-> SplitLast(metadata.Metadata["s3cmd-attrs"])]
              ELSE [raised |-> "KeyError", md5 |-> None]
         ELSE [raised |-> "none", md5 |-> etag]

need_md5_check_AlwaysCheck(obj) ==
    LET r == get_md5(obj) IN [do_md5_check |-> TRUE, md5sum |-> r.md5]

need_md5_check(obj) ==
    LET r == get_md5(obj) IN
    IF r.raised \in {"ClientError", "KeyError"}
    THEN [do_md5_check |-> FALSE, md5sum |-> None]
    ELSE [do_md5_check |-> TRUE, md5sum |-> r.md5]

should_skip_file_IfExists(dest, do_check, md5) == dest # NoFile

should_skip_file_Inverted(dest, do_check, md5) ==
    dest # NoFile /\ do_check /\ ~check_md5(dest, md5)

should_skip_file(dest, do_check, md5) ==
    IF dest # NoFile
    THEN IF do_check
         THEN IF check_md5(dest, md5) THEN TRUE ELSE FALSE
         ELSE FALSE
    ELSE FALSE

\* download_file's loop condition
LoopCond_OffByOne(n, attempts) == n <= attempts

LoopCond(n, attempts) == n < attempts

\* download_file's return value once the loop is left
DownloadResult(n, attempts) == IF n = attempts THEN FALSE ELSE TRUE

Keys == 1..Len(bucket)

IdleBuild ==
    /\ bpc = "idle" /\ args = <<>> /\ env = <<>> /\ fs = {} /\ fs0 = {} /\ cmds = <<>>
    /\ arch = "" /\ mcc_call = <<>> /\ mcc_i = 0 /\ warnings = {} /\ copied = FALSE
    /\ bexit = "running"

IdleManifest ==
    /\ mpc = "idle" /\ root_path = <<>> /\ tree = <<>> /\ items = <<>>
    /\ info = <<>> /\ mfiles = <<>> /\ datafiles = <<>> /\ matpackages = <<>>
    /\ raised = "none"

IdleGit ==
    /\ gpc = 0 /\ repo = <<>> /\ version = "" /\ versions = <<>>

IdleSync ==
    /\ bucket = <<>> /\ localFile = <<>> /\ run = 1 /\ kidx = 0 /\ pc = "idle"
    /\ do_md5_check = FALSE /\ md5sum = None /\ ntry = 0 /\ calls = 0 /\ events = <<>>
    /\ seen = NoFile /\ result = <<>> /\ firstRunOk = FALSE /\ exhausted = {}
    /\ exitStatus = "running"

SyncInit ==
    /\ \E n \in 0..NumObjects :
         /\ \E metas \in [1..n -> MetaKinds] :
              bucket = [k \in 1..n |-> [content |-> RemoteContent(k), meta |-> metas[k]]]
         /\ localFile \in [1..n -> {NoFile, Junk} \cup {RemoteContent(k) : k \in 1..n}]
         /\ \A k \in 1..n : localFile[k] \in {NoFile, Junk, RemoteContent(k)}
         /\ result = [k \in 1..n |-> "Pending"]
    /\ run = 1 /\ kidx = 0 /\ pc = "for"
    /\ do_md5_check = FALSE /\ md5sum = None /\ ntry = 0 /\ calls = 0 /\ events = <<>>
    /\ seen = NoFile /\ firstRunOk = FALSE /\ exhausted = {} /\ exitStatus = "running"
    /\ IdleBuild /\ IdleManifest /\ IdleGit

\* __main__, lines 155-160: the loop takes the next object and asks need_md5_check
\* (dest_folder is created when missing, which no later step reads).
NextObject ==
    /\ pc = "for" /\ kidx < Len(bucket)
    /\ kidx' = kidx + 1
    /\ LET r == need_md5_check(bucket[kidx + 1]) IN
         /\ do_md5_check' = r.do_md5_check
         /\ md5sum' = r.md5sum
    /\ ntry' = 0 /\ calls' = 0 /\ events' = <<>> /\ seen' = NoFile
    /\ pc' = "should_skip_file"
    /\ UNCHANGED <<bucket, localFile, run, result, firstRunOk, exhausted, exitStatus>>
    /\ UNCHANGED <<buildVars, manVars, gitVars>>

\* __main__, lines 162-163
SkipCheck ==
    /\ pc = "should_skip_file"
    /\ seen' = localFile[kidx]
    /\ IF should_skip_file(localFile[kidx], do_md5_check, md5sum)
       THEN /\ result' = [result EXCEPT ![kidx] = "Skipped"]
            /\ pc' = "for"
       ELSE /\ result' = [result EXCEPT ![kidx] = "Downloading"]
            /\ pc' = IF LoopCond(0, DOWNLOAD_ATTEMPTS) THEN "download_file"
                     ELSE "download_return"
    /\ UNCHANGED <<bucket, localFile, run, kidx, do_md5_check, md5sum, ntry, calls,
                   events, firstRunOk, exhausted, exitStatus>>
    /\ UNCHANGED <<buildVars, manVars, gitVars>>

\* download_file, lines 112-127: one pass of the loop. The transfer either raises
\* (the except clause names ClientError, which the module never imports: evaluating
\* it raises NameError, which nothing catches), or writes dest_file.
DownloadAttempt(outcome) ==
    /\ pc = "download_file"
    /\ ntry' = ntry + 1
    /\ calls' = calls + 1
    /\ IF outcome = "error"
       THEN /\ events' = Append(events, "error")
            /\ pc' = "crashed"
            /\ exitStatus' = "nonzero"
            /\ UNCHANGED localFile
       ELSE LET written == IF outcome = "ok" THEN bucket[kidx].content ELSE Junk IN
            /\ localFile' = [localFile EXCEPT ![kidx] = written]
            /\ UNCHANGED exitStatus
            /\ IF ~do_md5_check
               THEN /\ events' = Append(events, "unchecked")
                    /\ pc' = "download_return"
               ELSE IF check_md5(written, md5sum)
                    THEN /\ events' = Append(events, "match")
                         /\ pc' = "download_return"
                    ELSE /\ events' = Append(events, "mismatch")
                         /\ pc' = IF LoopCond(ntry + 1, DOWNLOAD_ATTEMPTS)
                                  THEN "download_file" ELSE "download_return"
    /\ UNCHANGED <<bucket, run, kidx, do_md5_check, md5sum, seen, result, firstRunOk,
                   exhausted>>
    /\ UNCHANGED <<buildVars, manVars, gitVars>>

\* download_file, lines 129-132, and __main__ line 164, which drops the value.
DownloadReturn ==
    /\ pc = "download_return"
    /\ result' = [result EXCEPT ![kidx] =
                     IF DownloadResult(ntry, DOWNLOAD_ATTEMPTS) THEN "Downloaded"
                     ELSE "Failed"]
    /\ exhausted' = IF \E i \in DOMAIN events : events[i] \in {"match", "unchecked"}
                    THEN exhausted ELSE exhausted \cup {kidx}
    /\ pc' = "for"
    /\ UNCHANGED <<bucket, localFile, run, kidx, do_md5_check, md5sum, ntry, calls,
                   events, seen, firstRunOk, exitStatus>>
    /\ UNCHANGED <<buildVars, manVars, gitVars>>

\* __main__, line 171: the loop is over, SUCCESS is printed, the script ends.
SyncFinish ==
    /\ pc = "for" /\ kidx = Len(bucket)
    /\ pc' = "done"
    /\ exitStatus' = "zero"
    /\ UNCHANGED <<bucket, localFile, run, kidx, do_md5_check, md5sum, ntry, calls,
                   events, seen, result, firstRunOk, exhausted>>
    /\ UNCHANGED <<buildVars, manVars, gitVars>>

\* The script is started again on the same bucket and the local tree it left.
Rerun ==
    /\ pc = "done" /\ run = 1
    /\ run' = 2
    /\ firstRunOk' = \A k \in Keys : result[k] \in {"Skipped", "Downloaded"}
    /\ result' = [k \in Keys |-> "Pending"]
    /\ kidx' = 0 /\ pc' = "for"
    /\ do_md5_check' = FALSE /\ md5sum' = None /\ ntry' = 0 /\ calls' = 0
    /\ events' = <<>> /\ seen' = NoFile /\ exhausted' = {} /\ exitStatus' = "running"
    /\ UNCHANGED <<bucket, localFile>>
    /\ UNCHANGED <<buildVars, manVars, gitVars>>

SyncNext ==
    \/ NextObject
    \/ SkipCheck
    \/ \E outcome \in {"ok", "corrupt", "error"} : DownloadAttempt(outcome)
    \/ DownloadReturn
    \/ SyncFinish
    \/ Rerun

SyncSpec == SyncInit /\ [][SyncNext]_vars

----------------------------------------------------------------------------
(* Claims about get_testfiles.py, checked under SyncSpec                   *)

Current == IF kidx \in Keys THEN result[kidx] ELSE "Pending"
Returned == Current \in {"Downloaded", "Failed"}

\* C1: an object whose DOWNLOAD_ATTEMPTS attempts all ended without an accepted
\* copy ends in Failed and the run is aborted with a non-zero status: it is not
\* back in the main loop, does not go on to another object, does not end in success.
C1_ExhaustedObjectAbortsRun ==
    \A k \in exhausted :
        /\ result[k] = "Failed"
        /\ pc = "crashed"
        /\ exitStatus = "nonzero"
        /\ kidx = k

\* C2: a transport error of one transfer attempt does not end the run while
\* attempts remain: the run is never found terminated by an error with ntry below
\* DOWNLOAD_ATTEMPTS.
C2_TransportErrorIsRetried ==
    ~(/\ pc = "crashed"
      /\ events # <<>>
      /\ events[Len(events)] = "error"
      /\ ntry < DOWNLOAD_ATTEMPTS)

\* C3: for an object whose local file is missing or differs from the remote digest,
\* download_file makes exactly one call when the first transfer verifies, exactly
\* DOWNLOAD_ATTEMPTS calls and then fails when every copy mismatches, and never
\* more than DOWNLOAD_ATTEMPTS calls.
C3_DownloadCallCount ==
    /\ calls <= DOWNLOAD_ATTEMPTS
    /\ (Returned /\ (seen = NoFile \/ (do_md5_check /\ file_md5(seen) # md5sum))) =>
         /\ events # <<>>
         /\ events[1] = "match" => (calls = 1 /\ Current = "Downloaded")
         /\ (\A i \in DOMAIN events : events[i] = "mismatch") =>
                (calls = DOWNLOAD_ATTEMPTS /\ Current = "Failed")

C3_Witness ==
    /\ Returned /\ seen = NoFile /\ Current = "Failed"
    /\ calls = DOWNLOAD_ATTEMPTS
    /\ \A i \in DOMAIN events : events[i] = "mismatch"

\* C4: the object is Skipped, with no download call, exactly when a local file
\* exists, the remote digest is verifiable and it equals the local file's digest;
\* otherwise it is not skipped and a download is attempted.
C4_SkipIffVerifiedMatch ==
    (kidx \in Keys /\ Current # "Pending") =>
        /\ Current = "Skipped" <=>
              (seen # NoFile /\ do_md5_check /\ md5sum = file_md5(seen))
        /\ Current = "Skipped" => calls = 0
        /\ Current # "Skipped" => (calls >= 1 \/ pc = "download_file")

C4_Witness ==
    /\ kidx \in Keys /\ Current = "Skipped" /\ seen # NoFile /\ calls = 0
    /\ \E k \in Keys : k < kidx /\ result[k] = "Downloaded"

\* C5 (as claimed): after a run that ended every object Skipped or Downloaded, the
\* re-run makes no download call for any object.
C5_RerunMakesNoTransfer ==
    (run = 2 /\ firstRunOk) => calls = 0

\* C5 (amended): in such a re-run every object whose remote digest could be read
\* is Skipped with no download call, and an object whose digest could not be read
\* is not skipped: it is transferred again.
C5_RerunSkipsVerifiable ==
    (run = 2 /\ firstRunOk /\ kidx \in Keys /\ Current # "Pending") =>
        /\ do_md5_check => (Current = "Skipped" /\ calls = 0)
        /\ ~do_md5_check => (Current # "Skipped" /\ (calls >= 1 \/ pc = "download_file"))

C5_Witness ==
    /\ run = 2 /\ firstRunOk /\ pc = "done" /\ kidx \in Keys
    /\ bucket[kidx].meta = "multi_attrs" /\ Current = "Skipped" /\ calls = 0
    /\ \E k \in Keys : bucket[k].meta = "denied" /\ result[k] = "Downloaded"

\* C6: when the remote digest cannot be read (ClientError or KeyError) the object is
\* marked not verifiable with no digest, the run goes on (it ends early only on a
\* transport error), the object is not skipped, and one transfer that succeeds ends
\* it Downloaded after that single call.
C6_DigestFailureNotFatal ==
    (kidx \in Keys /\ get_md5(bucket[kidx]).raised # "none") =>
        /\ do_md5_check = FALSE /\ md5sum = None
        /\ pc = "crashed" => (events # <<>> /\ events[Len(events)] = "error")
        /\ Current # "Skipped"
        /\ (events # <<>> /\ events[1] = "unchecked" /\ pc # "download_return") =>
              (Current = "Downloaded" /\ calls = 1)

C6_Witness ==
    /\ kidx \in Keys /\ get_md5(bucket[kidx]).raised = "KeyError"
    /\ Current = "Downloaded" /\ calls = 1 /\ events = <<"unchecked">>
    /\ localFile[kidx] = bucket[kidx].content

----------------------------------------------------------------------------
(* build.py: the pipeline of __main__                                      *)

VALID_ARCHS == <<"glnxa64", "win64", "maci64">>

InList(x, list) == \E i \in DOMAIN list : list[i] = x

\* The paths the pipeline can create: the dist directory, the version marker
\* (VERSION_FILE), the temporary build script, the compiler's output in dist and
\* the binary copied to the repository root.
DistDir == "dist"
VersionFile == ".standalone_canonical_version"
TmpScript == "tmpbuild.m"
DistBinary == "dist/imosToolbox_<arch>"
RootBinary == "imosToolbox_<arch>.bin|.exe"

\* platform.architecture() of the hosts the script may run on
Hosts == {<<"64bit", "ELF">>, <<"64bit", "WindowsPE">>, <<"64bit", "">>, <<"32bit", "ELF">>}

\* get_args, lines 344-362: the architecture, or "" when an exception is raised.
ResolveArch(a) ==
    IF a.arch = ""
    THEN IF a.host[1] # "64bit" THEN ""
         ELSE IF a.host[2] = "ELF" THEN "glnxa64"
         ELSE IF a.host[2] = "WindowsPE" THEN "win64"
         ELSE ""
    ELSE IF InList(a.arch, VALID_ARCHS) THEN a.arch ELSE ""

\* create_mcc_call_sig, lines 294-324: the commands returned, and whether the
\* temporary script was written on the way (it is, whatever --dry-run says).
create_mcc_call_sig(a) ==
    IF a = "win64"
    THEN [rlist |-> <<"matlab_run_tmpscript", "del_tmpscript">>, wrote_tmpscript |-> TRUE]
    ELSE [rlist |-> <<"mcc">>, wrote_tmpscript |-> FALSE]

\* run(), lines 87-89: subprocess.run gives a CompletedProcess, and `not ok` on
\* line 468 asks for the truth value of that object, which is always true.
RunIsFalsy(rc) == FALSE

\* line 454: `rstatus.returncode is not 0`
JavaFailed(rc) == rc # 0

\* Every argument combination on every host; the host is read only when --arch is
\* not given, so it is fixed otherwise. The repository may hold a dist directory
\* and a binary in it from an earlier build.
BuildInit ==
    /\ args \in [arch : {"", "glnxa64", "win64", "maci64", "sparc"},
                 host : Hosts,
                 dry_run : BOOLEAN,
                 check_repo_only : BOOLEAN,
                 build_java : BOOLEAN,
                 dist_path : BOOLEAN]
    /\ args.arch # "" => args.host = <<"64bit", "ELF">>
    /\ env \in [toolchain : {"ok", "no_mcc", "no_matlab"},
                is_repo : BOOLEAN,
                untracked_files : BOOLEAN,
                staged_files : BOOLEAN,
                modified_files : BOOLEAN,
                entry_file : BOOLEAN]
    /\ fs0 \in {{}, {DistDir}, {DistDir, DistBinary}}
    /\ fs = fs0
    /\ bpc = "get_args" /\ cmds = <<>> /\ arch = "" /\ mcc_call = <<>> /\ mcc_i = 0
    /\ warnings = {} /\ copied = FALSE /\ bexit = "running"
    /\ IdleSync /\ IdleManifest /\ IdleGit

Crash ==
    /\ bpc' = "crashed"
    /\ bexit' = "nonzero"

\* line 400, get_args (lines 327-388)
GetArgs ==
    /\ bpc = "get_args"
    /\ LET made == IF ~args.dist_path /\ DistDir \notin fs THEN {DistDir} ELSE {}
           a == ResolveArch(args)
       IN /\ fs' = fs \cup made
          /\ IF a = "" \/ env.toolchain # "ok"
             THEN Crash /\ UNCHANGED arch
             ELSE /\ arch' = a
                  /\ bpc' = "git_info"
                  /\ UNCHANGED bexit
    /\ UNCHANGED <<args, env, fs0, cmds, mcc_call, mcc_i, warnings, copied>>
    /\ UNCHANGED <<syncVars, manVars, gitVars>>

\* lines 401-425: git_info, the report, the three warnings, --check-repo-only
RepoCheck ==
    /\ bpc = "git_info"
    /\ IF ~env.is_repo
       THEN Crash /\ UNCHANGED warnings
       ELSE /\ warnings' = (IF ~env.untracked_files THEN {"untracked"} ELSE {})
                           \cup (IF ~env.staged_files THEN {"staged"} ELSE {})
                           \cup (IF ~env.modified_files THEN {"modified"} ELSE {})
            /\ IF args.check_repo_only
               THEN bpc' = "exited" /\ bexit' = "zero"
               ELSE bpc' = "prepare" /\ UNCHANGED bexit
    /\ UNCHANGED <<args, env, fs, fs0, cmds, arch, mcc_call, mcc_i, copied>>
    /\ UNCHANGED <<syncVars, manVars, gitVars>>

\* lines 427-447: write_version, get_required_files (IndexError on line 241 when
\* no source file is the entry file), create_mcc_call_sig
Prepare ==
    /\ bpc = "prepare"
    /\ LET marker == IF ~args.dry_run THEN {VersionFile} ELSE {}
           sig == create_mcc_call_sig(arch)
       IN IF ~env.entry_file
          THEN /\ fs' = fs \cup marker
               /\ Crash
               /\ UNCHANGED mcc_call
          ELSE /\ fs' = fs \cup marker \cup (IF sig.wrote_tmpscript THEN {TmpScript} ELSE {})
               /\ mcc_call' = sig.rlist
               /\ bpc' = "java"
               /\ UNCHANGED bexit
    /\ UNCHANGED <<args, env, fs0, cmds, arch, mcc_i, warnings, copied>>
    /\ UNCHANGED <<syncVars, manVars, gitVars>>

\* lines 449-460: the optional `ant install`
JavaDeps(rc) ==
    /\ bpc = "java"
    /\ IF args.build_java /\ ~args.dry_run
       THEN /\ cmds' = Append(cmds, [cmd |-> "ant_install", rc |-> rc])
            /\ IF JavaFailed(rc)
               THEN Crash
               ELSE bpc' = "mcc" /\ UNCHANGED bexit
       ELSE /\ rc = 0
            /\ bpc' = "mcc"
            /\ UNCHANGED <<cmds, bexit>>
    /\ UNCHANGED <<args, env, fs, fs0, arch, mcc_call, mcc_i, warnings, copied>>
    /\ UNCHANGED <<syncVars, manVars, gitVars>>

\* What a command leaves behind: the compiler's output in the dist directory when
\* it succeeds and makes one (a zero exit without output is possible), the script
\* gone after `del`.
Effect(cmd, rc, produced, files) ==
    IF rc # 0 THEN files
    ELSE IF cmd = "del_tmpscript" THEN files \ {TmpScript}
    ELSE IF produced /\ DistDir \in files THEN files \cup {DistBinary}
    ELSE files

\* lines 464-469: one pass of the loop over mcc_call
MccCall(rc, produced) ==
    /\ bpc = "mcc" /\ mcc_i < Len(mcc_call)
    /\ mcc_i' = mcc_i + 1
    /\ IF ~args.dry_run
       THEN LET mcall == mcc_call[mcc_i + 1] IN
            /\ cmds' = Append(cmds, [cmd |-> mcall, rc |-> rc])
            /\ fs' = Effect(mcall, rc, produced, fs)
            /\ IF RunIsFalsy(rc)
               THEN Crash
               ELSE UNCHANGED <<bpc, bexit>>
       ELSE /\ rc = 0 /\ ~produced
            /\ UNCHANGED <<cmds, fs, bpc, bexit>>
    /\ UNCHANGED <<args, env, fs0, arch, mcc_call, warnings, copied>>
    /\ UNCHANGED <<syncVars, manVars, gitVars>>

\* lines 471-485: copy() raises when the compiler's output is not there
Publish ==
    /\ bpc = "mcc" /\ mcc_i = Len(mcc_call)
    /\ IF ~args.dry_run
       THEN IF DistBinary \in fs
            THEN /\ fs' = fs \cup {RootBinary}
                 /\ copied' = TRUE
                 /\ bpc' = "done" /\ bexit' = "zero"
            ELSE Crash /\ UNCHANGED <<fs, copied>>
       ELSE /\ bpc' = "done" /\ bexit' = "zero"
            /\ UNCHANGED <<fs, copied>>
    /\ UNCHANGED <<args, env, fs0, cmds, arch, mcc_call, mcc_i, warnings>>
    /\ UNCHANGED <<syncVars, manVars, gitVars>>

BuildNext ==
    \/ GetArgs
    \/ RepoCheck
    \/ Prepare
    \/ \E rc \in {0, 1} : JavaDeps(rc)
    \/ \E rc \in {0, 1}, produced \in BOOLEAN : MccCall(rc, produced)
    \/ Publish

BuildSpec == BuildInit /\ [][BuildNext]_vars

----------------------------------------------------------------------------
(* Claims about the build pipeline, checked under BuildSpec                *)

\* C7: the binary is published only after every build command exited with status
\* zero; a command that exits non-zero is the last one run, and the pipeline has
\* stopped there with a fatal error.
C7_PublishOnlyAfterCleanBuild ==
    /\ copied => \A i \in DOMAIN cmds : cmds[i].rc = 0
    /\ \A i \in DOMAIN cmds :
          cmds[i].rc # 0 => (i = Len(cmds) /\ bpc = "crashed" /\ bexit = "nonzero")

\* C8: in dry-run mode nothing is mutated: no directory is made, neither the
\* version marker nor the temporary script is written, no command is run and
\* nothing is copied, so the filesystem stays what it was.
C8_DryRunChangesNothing ==
    (bpc # "idle" /\ args.dry_run) => (fs = fs0 /\ cmds = <<>> /\ ~copied)

----------------------------------------------------------------------------
(* build.py: find_files_and_folders and find_items                         *)
(* A pathlib path is its tuple of parts; ("/", "r", "a") is /r/a and () is *)
(* Path(".").  Paths handed on by find_items are as_posix() strings.       *)

RECURSIVE JoinParts(_)
JoinParts(parts) ==
    IF parts = <<>> THEN ""
    ELSE IF Len(parts) = 1 THEN parts[1]
    ELSE parts[1] \o "/" \o JoinParts(Tail(parts))

as_posix(x) ==
    IF x = <<>> THEN "."
    ELSE IF x[1] = "/" THEN "/" \o JoinParts(Tail(x))
    ELSE JoinParts(x)

parent(x) ==
    IF x = <<>> \/ x = <<"/">> THEN x ELSE SubSeq(x, 1, Len(x) - 1)

\* PurePath.suffix: from the last dot of the final part, unless that dot is its
\* first or last character
suffix(x) ==
    IF x = <<>> \/ x = <<"/">> THEN ""
    ELSE LET name == x[Len(x)]
             dots == {i \in 1..Len(name) : SubSeq(name, i, i) = "."}
         IN IF dots = {} THEN ""
            ELSE LET i == CHOOSE d \in dots : \A e \in dots : e <= d
                 IN IF 1 < i /\ i < Len(name) THEN SubSeq(name, i, Len(name)) ELSE ""

\* The files a repository may hold, relative to its root, in walk order.
CandidateFiles ==
    << <<"test_imosToolbox.m">>,
       <<"imosToolbox.m">>,
       <<"Util", "+p", "h.m">>,
       <<"data", "s.mat">>,
       <<"data", "testfiles", "i.mat">>,
       <<"data", "testfiles", "t.m">>,
       <<"dist", "o.bin">>,
       <<"dist", "sub", "y.m">>,
       <<"snapshot", "s.txt">>,
       <<".git", "config">>,
       <<"r.txt">>,
       <<"b.log">>,
       <<"tmpbuild.m">>,
       <<"@c", "+q", "x.m">>,
       <<"+p", "+n", "g.mat">> >>

CandidateFolders ==
    << <<>>, <<"Util">>, <<"Util", "+p">>, <<"data">>, <<"data", "testfiles">>,
       <<"dist">>, <<"dist", "sub">>, <<"snapshot">>, <<".git">>, <<"@c">>,
       <<"@c", "+q">>, <<"+p">>, <<"+p", "+n">> >>

\* The root given to find_items: an absolute path, or "." (--root_path=.)
Roots == {<<"/", "r">>, <<>>}

IsProperPrefix(d, f) == Len(d) < Len(f) /\ SubSeq(f, 1, Len(d)) = d

\* The tree that holds the selected files: the files, and the root with every
\* folder on the way to one of them.
TreeOf(root, sel) ==
    LET InSel(f) == \E i \in sel : CandidateFiles[i] = f
        Holds(d) == d = <<>> \/ \E i \in sel : IsProperPrefix(d, CandidateFiles[i])
        Abs(rel) == root \o rel
        files == SelectSeq(CandidateFiles, InSel)
        folders == SelectSeq(CandidateFolders, Holds)
    IN [files |-> [i \in DOMAIN files |-> Abs(files[i])],
        folders |-> [i \in DOMAIN folders |-> Abs(folders[i])]]

\* find_files_and_folders, lines 145-164
KeepFolder(x) ==
    /\ ~InStr("/.", as_posix(x))
    /\ ~InStr("/dist/", as_posix(x))
    /\ ~InStr("/snapshot/", as_posix(x))

KeepFile(x) ==
    /\ ~InStr("/.", as_posix(x))
    /\ ~InStr("/dist/", as_posix(x))
    /\ ~InStr("/snapshot", as_posix(x))

find_files_and_folders(t) ==
    [all_folders |-> SelectSeq(t.folders, KeepFolder),
     all_files |-> SelectSeq(t.files, KeepFile)]

\* find_items, lines 173-218: the six filters
IsPathFolder(x) == ~InStr("/+", as_posix(x)) /\ ~InList("testfiles", x)

IsClassFolder(x) == InStr("/@", as_posix(x)) /\ ~InStr("/+", as_posix(parent(x)))

IsPackageFolder(x) == InStr("/+", as_posix(x)) /\ ~InStr("/+", as_posix(parent(x)))

IsMFile(x) ==
    /\ suffix(x) = ".m"
    /\ x[Len(x)] # "tmpbuild.m"
    /\ ~InStr("/+", as_posix(parent(x)))

IsMatFile(x) ==
    /\ ~InStr("data/testfiles/", as_posix(x))
    /\ suffix(x) = ".mat"
    /\ ~InStr("/+", as_posix(parent(x)))

IsMiscFile_KeepsM(x) ==
    /\ ~InStr("data/testfiles/", as_posix(x))
    /\ suffix(x) \notin {".mat", ".log", ".nc", ".pdf", ".py", ".sh", ".jar"}
    /\ ~InStr("imosToolbox_", as_posix(x))
    /\ ~InStr(".git", as_posix(x))

IsMiscFile(x) ==
    /\ ~InStr("data/testfiles/", as_posix(x))
    /\ suffix(x) \notin {".mat", ".m", ".log", ".nc", ".pdf", ".py", ".sh", ".jar"}
    /\ ~InStr("imosToolbox_", as_posix(x))
    /\ ~InStr(".git", as_posix(x))

Posix(list) == [i \in DOMAIN list |-> as_posix(list[i])]

find_items(t) ==
    LET found == find_files_and_folders(t) IN
    [path_folders |-> Posix(SelectSeq(found.all_folders, IsPathFolder)),
     standard_classes |-> Posix(SelectSeq(found.all_folders, IsClassFolder)),
     standard_packages |-> Posix(SelectSeq(found.all_folders, IsPackageFolder)),
     standard_mfiles |-> Posix(SelectSeq(found.all_files, IsMFile)),
     standard_matfiles |-> Posix(SelectSeq(found.all_files, IsMatFile)),
     standard_miscfiles |-> Posix(SelectSeq(found.all_files, IsMiscFile))]

NoItems ==
    [path_folders |-> <<>>, standard_classes |-> <<>>, standard_packages |-> <<>>,
     standard_mfiles |-> <<>>, standard_matfiles |-> <<>>, standard_miscfiles |-> <<>>]

\* list.remove(x) after `x in list`: the first occurrence goes
RemoveFirst(list, x) ==
    IF ~InList(x, list) THEN list
    ELSE LET i == CHOOSE k \in DOMAIN list : list[k] = x /\ \A j \in 1..(k - 1) : list[j] # x
         IN SubSeq(list, 1, i - 1) \o SubSeq(list, i + 1, Len(list))

\* get_required_files, lines 232-238, for one of the three lists
RECURSIVE RemoveUntracked(_, _)
RemoveUntracked(list, ufiles) ==
    IF ufiles = <<>> THEN list
    ELSE RemoveUntracked(RemoveFirst(list, Head(ufiles)), Tail(ufiles))

\* line 240: `"imosToolbox.m" in file`, a substring test on the path
IsEntry(file) == InStr("imosToolbox.m", file)

\* get_required_files, lines 222-246, on find_items' result
get_required_files(found, inf) ==
    LET ufiles == inf.untracked_files
        allmfiles == RemoveUntracked(found.standard_mfiles, ufiles)
        allmatfiles == RemoveUntracked(found.standard_matfiles, ufiles)
        allmiscfiles == RemoveUntracked(found.standard_miscfiles, ufiles)
        mind == {i \in DOMAIN allmfiles : IsEntry(allmfiles[i])}
    IN IF mind = {}
       THEN [raised |-> "IndexError", mfiles |-> <<>>, datafiles |-> <<>>,
             matpackages |-> <<>>]
       ELSE LET first == CHOOSE i \in mind : \A j \in mind : i <= j
                rest == SubSeq(allmfiles, 1, first - 1)
                           \o SubSeq(allmfiles, first + 1, Len(allmfiles))
            IN [raised |-> "none",
                mfiles |-> <<allmfiles[first]>> \o rest,
                datafiles |-> allmatfiles \o allmiscfiles,
                matpackages |-> found.standard_packages]

\* git reports untracked files by their path from the top of the working tree;
\* nothing under .git is ever untracked.
CanBeUntracked(f) == f[1] # ".git"

ManifestInit ==
    /\ root_path \in Roots
    /\ \E sel \in SUBSET (1..Len(CandidateFiles)) :
          /\ Cardinality(sel) <= MaxTreeFiles
          /\ tree = TreeOf(root_path, sel)
          /\ \E usel \in SUBSET {i \in sel : CanBeUntracked(CandidateFiles[i])} :
                LET Picked(f) == \E i \in usel : CandidateFiles[i] = f
                    ufiles == SelectSeq(CandidateFiles, Picked)
                IN info = [untracked_files |-> [i \in DOMAIN ufiles |-> JoinParts(ufiles[i])]]
    /\ mpc = "start"
    /\ items = NoItems
    /\ mfiles = <<>> /\ datafiles = <<>> /\ matpackages = <<>> /\ raised = "none"
    /\ IdleSync /\ IdleBuild /\ IdleGit

\* find_items(folder), lines 167-219
FindItems ==
    /\ mpc = "start"
    /\ items' = find_items(tree)
    /\ mpc' = "found"
    /\ UNCHANGED <<root_path, tree, info, mfiles, datafiles, matpackages, raised>>
    /\ UNCHANGED <<syncVars, buildVars, gitVars>>

\* get_required_files(root_path, info), lines 222-246
GetRequiredFiles ==
    /\ mpc = "start"
    /\ items' = find_items(tree)
    /\ LET r == get_required_files(find_items(tree), info) IN
         /\ raised' = r.raised
         /\ mfiles' = r.mfiles
         /\ datafiles' = r.datafiles
         /\ matpackages' = r.matpackages
    /\ mpc' = "required"
    /\ UNCHANGED <<root_path, tree, info>>
    /\ UNCHANGED <<syncVars, buildVars, gitVars>>

ManifestNext ==
    \/ FindItems
    \/ GetRequiredFiles

ManifestSpec == ManifestInit /\ [][ManifestNext]_vars

----------------------------------------------------------------------------
(* Claims about the manifest, checked under ManifestSpec                   *)

Occurrences(list, p) == Cardinality({i \in DOMAIN list : list[i] = p})

\* How often a path is listed in the five categories: source files, data files,
\* package folders, class folders, miscellaneous files.
Listed(p) ==
    Occurrences(items.standard_mfiles, p) + Occurrences(items.standard_matfiles, p)
    + Occurrences(items.standard_packages, p) + Occurrences(items.standard_classes, p)
    + Occurrences(items.standard_miscfiles, p)

Range(list) == {list[i] : i \in DOMAIN list}

\* The part of a tree path below the root
Rel(x) == SubSeq(x, Len(root_path) + 1, Len(x))

UnderDir(x, dir) == IsProperPrefix(dir, Rel(x))

ExcludedDirs == { <<"data", "testfiles">>, <<"dist">>, <<"snapshot">>, <<".git">> }

InExcludedDir(x) == \E d \in ExcludedDirs : UnderDir(x, d)

ExcludedByRule(x) ==
    LET inPackage == InStr("/+", as_posix(parent(x)))
        inFixtures == InStr("data/testfiles/", as_posix(x))
    IN \/ ~KeepFile(x)
       \/ suffix(x) = ".m" /\ (x[Len(x)] = "tmpbuild.m" \/ inPackage)
       \/ suffix(x) = ".mat" /\ (inFixtures \/ inPackage)
       \/ suffix(x) \in {".log", ".nc", ".pdf", ".py", ".sh", ".jar"}
       \/ suffix(x) # ".m" /\ suffix(x) # ".mat"
            /\ (inFixtures \/ InStr("imosToolbox_", as_posix(x)) \/ InStr(".git", as_posix(x)))

C10_NoExcludedDirInManifest ==
    mpc = "found" =>
        \A x \in Range(tree.files) \cup Range(tree.folders) :
            InExcludedDir(x) =>
                /\ Listed(as_posix(x)) = 0
                /\ as_posix(x) \notin Range(items.path_folders)

\* The listed paths of the tree's files that git reports as untracked
UntrackedPaths ==
    {as_posix(x) : x \in {y \in Range(tree.files) :
                             JoinParts(Rel(y)) \in Range(info.untracked_files)}}

\* C11: after get_required_files, whatever the root path (absolute or relative)
\* and the untracked-file list, no untracked file is in any category of the
\* output: the source files, the data files and the package folders are what
\* find_items classified, less the untracked paths.
C11_UntrackedNeverListed ==
    (mpc = "required" /\ raised = "none") =>
        /\ Range(mfiles) = Range(items.standard_mfiles) \ UntrackedPaths
        /\ Range(datafiles) =
              (Range(items.standard_matfiles) \cup Range(items.standard_miscfiles))
                 \ UntrackedPaths
        /\ Range(matpackages) = Range(items.standard_packages) \ UntrackedPaths

\* The listed paths of the tree's files whose name is exactly the entry-point name
EntryPaths == {as_posix(x) : x \in {y \in Range(tree.files) : y[Len(y)] = "imosToolbox.m"}}

\* The source files left when the untracked paths have been taken out of the list
SourcesLeft == RemoveUntracked(items.standard_mfiles, info.untracked_files)

\* C12: in the source-file list get_required_files returns, the file named exactly
\* imosToolbox.m is at index 1 (Python's 0) and occurs once, and the other source
\* files follow in the order they had; when no source file left has that name the
\* operation fails.
C12_EntryFileFirst ==
    mpc = "required" =>
        IF Range(SourcesLeft) \cap EntryPaths # {}
        THEN /\ raised = "none"
             /\ mfiles[1] \in EntryPaths
             /\ Occurrences(mfiles, mfiles[1]) = 1
             /\ Tail(mfiles) = SelectSeq(SourcesLeft, LAMBDA f : f # mfiles[1])
        ELSE raised # "none"

----------------------------------------------------------------------------
(* build.py: git_info                                                      *)

MaxCalls == 2

\* repo.git.describe("--tags"): the nearest tag, followed by the number of commits
\* since it and the abbreviated commit when HEAD is not at the tag
Describe(r) ==
    IF r.distance = 0 THEN r.tag_name
    ELSE r.tag_name \o "-" \o ToString(r.distance) \o "-g" \o "1a2b3c4"

\* repo.is_dirty(): something is staged or a tracked file is modified
IsDirty(r) == r.staged_files # <<>> \/ r.modified_files # <<>>

\* len(s.split("-"))
SplitLen(s) == Cardinality({i \in 1..Len(s) : SubSeq(s, i, i) = "-"}) + 1

\* git_info, lines 117-142
git_info(r) ==
    LET username == r.username
        is_dirty == IsDirty(r)
        branch == r.branch
        tag == Describe(r)
        is_tag_release == SplitLen(tag) < 3
        is_clean == ~is_dirty /\ r.staged_files = <<>>
        is_official_release == is_tag_release /\ is_clean
        v == IF is_official_release THEN tag
             ELSE branch \o "|" \o username \o "|" \o tag
                     \o (IF is_dirty THEN "|dirty" ELSE "")
    IN [username |-> username, is_dirty |-> is_dirty, branch |-> branch, tag |-> tag,
        modified_files |-> r.modified_files, staged_files |-> r.staged_files,
        untracked_files |-> r.untracked_files,
        is_tag_release |-> is_tag_release, is_master |-> branch = "master",
        is_clean |-> is_clean, is_official_release |-> is_official_release,
        version |-> v]

\* A repository with a checked-out branch and at least one tag, as git_info needs.
GitInit ==
    /\ repo \in [username : {"ana", "ci"},
                 branch : {"master", "fix-1"},
                 tag_name : {"2.6", "2.6-rc1", "2.6-rc-1"},
                 distance : {0, 3},
                 modified_files : {<<>>, <<"Util/a.m">>},
                 staged_files : {<<>>, <<"imosToolbox.m">>},
                 untracked_files : {<<>>, <<"r.txt">>}]
    /\ gpc = 0 /\ version = "" /\ versions = <<>>
    /\ IdleSync /\ IdleBuild /\ IdleManifest

\* repo_info = git_info(root_path), line 401; the repository is left as it was
GitInfo ==
    /\ gpc < MaxCalls
    /\ gpc' = gpc + 1
    /\ version' = git_info(repo).version
    /\ versions' = Append(versions, git_info(repo).version)
    /\ UNCHANGED repo
    /\ UNCHANGED <<syncVars, buildVars, manVars>>

GitNext == GitInfo

GitSpec == GitInit /\ [][GitNext]_vars

----------------------------------------------------------------------------
(* Claims about git_info, checked under GitSpec                            *)

\* HEAD is at a tag (the description has no commit-distance suffix), nothing is
\* modified and nothing is staged
AtCleanTag == repo.distance = 0 /\ ~IsDirty(repo) /\ repo.staged_files = <<>>

\* C13: the version is a function of the repository state: for an official release
\* (at a tag, not dirty, nothing staged) it is exactly the tag; otherwise it is
\* branch, user and tag in that order joined by "|", followed by the dirty marker
\* exactly when the repository is dirty; every call on the same state gives the
\* same string.
C13_VersionOfState ==
    gpc >= 1 =>
        /\ version = IF AtCleanTag THEN repo.tag_name
                     ELSE repo.branch \o "|" \o repo.username \o "|" \o Describe(repo)
                             \o (IF IsDirty(repo) THEN "|dirty" ELSE "")
        /\ \A i \in DOMAIN versions : versions[i] = version

----------------------------------------------------------------------------
(* Further claims about get_testfiles.py, checked under SyncSpec           *)

\* One of the attempts transferred the object and the copy was accepted: its
\* digest matched, or no digest was there to check it against.
Accepted == \E i \in DOMAIN events : events[i] \in {"match", "unchecked"}

\* C14: download_file reports success (the object ends Downloaded) exactly when one
\* of its attempts, the last one included, transferred a copy that was accepted,
\* and failure only when none did.
C14_SuccessIffAccepted ==
    Returned => (Current = "Downloaded" <=> Accepted)

----------------------------------------------------------------------------
(* Further claims about the build pipeline, checked under BuildSpec        *)

\* The warnings the repository state calls for
WarningsDue ==
    (IF env.untracked_files THEN {"untracked"} ELSE {})
    \cup (IF env.staged_files THEN {"staged"} ELSE {})
    \cup (IF env.modified_files THEN {"modified"} ELSE {})

\* C15: when the repository has been inspected, the untracked-files warning is
\* printed exactly when there are untracked files, the staged-changes warning
\* exactly when there are staged files and the modified-files warning exactly when
\* there are modified files, and none of them stops the pipeline.
C15_WarningsIffNonEmpty ==
    [][(bpc = "git_info" /\ env.is_repo) =>
          (warnings' = WarningsDue /\ bpc' # "crashed")]_vars

Ran(name) == {i \in DOMAIN cmds : cmds[i].cmd = name}

\* C16: when `ant install` exits non-zero, exactly one `ant clean` is run after it
\* and the pipeline has stopped with an error, no compiler command run and nothing
\* published; when it exits zero or is not asked for, no `ant clean` is run.
C16_FailedInstallCleansThenStops ==
    IF \E i \in Ran("ant_install") : cmds[i].rc # 0
    THEN /\ Cardinality(Ran("ant_clean")) = 1
         /\ \A i \in Ran("ant_install"), j \in Ran("ant_clean") : i < j
         /\ bpc = "crashed" /\ bexit = "nonzero"
         /\ Ran("mcc") \cup Ran("matlab_run_tmpscript") \cup Ran("del_tmpscript") = {}
         /\ ~copied
    ELSE Ran("ant_clean") = {}

====
